---------------------------- MODULE Spec2Model ----------------------------
(***************************************************************************)
(* Maximal-product contiguous subrange (src/main.rs).                      *)
(*                                                                         *)
(* The four algorithms of the program are modelled: the two oracles        *)
(* (max_prod_brute_force, max_prod_brute_force_improved) as operators, the *)
(* zero-segmented scan (max_prod_fast_int) and the run compression plus    *)
(* stack reduction (compress_dual, max_prod_fast_real) as state machines   *)
(* with one action per loop iteration, so that the loop invariants can be  *)
(* stated on the intermediate states.                                      *)
(*                                                                         *)
(* Numbers.  The functions are generic in T.  A value of T is the pair     *)
(* <<numerator, denominator>>.  For the unsigned instance (ty = "uint")    *)
(* the denominator is 1 and the arithmetic is that of a TBits wide         *)
(* unsigned integer: a product that does not fit panics when the build     *)
(* has overflow checks and wraps modulo 2^TBits when it has not.  For the  *)
(* real instance (ty = "real") the arithmetic is exact rational            *)
(* arithmetic: the rounding of f32/f64 is not modelled.                    *)
(*                                                                         *)
(* Indices are the 0-based usize indices of the source; At(a, k) reads     *)
(* a[k].  usize subtraction below zero panics with overflow checks and     *)
(* wraps to USIZE_MAX without.                                             *)
(***************************************************************************)
EXTENDS Integers, Sequences, FiniteSets, TLC

\* ------------------------------------------------------------- bounds
\* longest unsigned input sequence tried
MaxLen == 4
\* longest real input sequence tried
MaxLenReal == 5
\* unsigned inputs are drawn from 0..MaxVal and the value SqrtModulus
MaxVal == 3
\* real inputs are drawn from the halves 0/2, 1/2, ..., MaxNum/2
MaxNum == 4

\* ------------------------------------------------------- the type T
\* width of the unsigned instance of T: u8, the narrowest one
TBits == 8
Modulus == 2^TBits
\* the smallest value whose square does not fit in T
SqrtModulus == 2^(TBits \div 2)
\* usize::MAX, the result of a wrapping 0 - 1.  No arithmetic is done on it;
\* it only has to exceed every index, so the largest integer TLC holds stands
\* for 2^64 - 1.
USIZE_MAX == 2147483647

VARIABLES
    ty,              \* instance of T the entry point is called at: "uint" | "real"
    overflow_checks, \* build setting: TRUE panics on overflow, FALSE wraps
    arr,             \* the input slice
    pc,              \* position in the called function, "done", or "panic"
    i,               \* loop index of max_prod_fast_int / compress_dual's for loop
    current,         \* max_prod_fast_int: current run (start, end)
    current_prod,    \* max_prod_fast_int: product of the current run
    max,             \* max_prod_fast_int: candidate maximum's range
    max_prod,        \* max_prod_fast_int: candidate maximum's product
    start,           \* compress_dual: start of the run being built
    tmp_prod,        \* compress_dual: product of the run being built
    tmp_max,         \* compress_dual: largest element of the leading below-one prefix
    tmp_max_idx,     \* compress_dual: its index
    smaller,         \* compress_dual: TRUE while compressing numbers below one
    compressed,      \* compress_dual's list of runs / max_prod_fast_real's stack
    current_max,     \* max_prod_fast_real: candidate maximum (product, start, end)
    result           \* the returned (start, end), meaningful when pc = "done"

vars == <<ty, overflow_checks, arr, pc, i, current, current_prod, max, max_prod,
          start, tmp_prod, tmp_max, tmp_max_idx, smaller, compressed,
          current_max, result>>

intVars == <<i, current, current_prod, max, max_prod>>
compressVars == <<start, tmp_prod, tmp_max, tmp_max_idx, smaller>>

\* T::zero() and T::one()
Zero == <<0, 1>>
One == <<1, 1>>

\* x > y, x < y and x == y on T
Gt(x, y) == x[1] * y[2] > y[1] * x[2]
Lt(x, y) == Gt(y, x)
EqT(x, y) == x[1] * y[2] = y[1] * x[2]

\* x * y overflows T
Overflows(x, y) == ty = "uint" /\ x[1] * y[1] >= Modulus

\* x * y in T (the wrapped value when it overflows)
Mul(x, y) ==
    IF ty = "uint" THEN <<(x[1] * y[1]) % Modulus, 1>>
    ELSE <<x[1] * y[1], x[2] * y[2]>>

\* a[k], 0-based
At(a, k) == a[k + 1]

\* the input values
UintValues == {<<v, 1>> : v \in (0..MaxVal) \cup {SqrtModulus}}
RealValues == {<<k, 2>> : k \in 0..MaxNum}
SeqsUpTo(S, n) == UNION {[1..m -> S] : m \in 0..n}

\* ------------------------------------------------------------ prod
\* prod(arr, i, j): [ok, val]; ok is FALSE when the call panics (an index
\* outside the slice, or an overflow under overflow checks)
RECURSIVE ProdFrom(_, _, _, _)
ProdFrom(a, k, j, acc) ==
    IF k > j THEN [ok |-> TRUE, val |-> acc]
    ELSE IF k >= Len(a) THEN [ok |-> FALSE, val |-> acc]
    ELSE IF Overflows(acc, At(a, k)) /\ overflow_checks THEN [ok |-> FALSE, val |-> acc]
    ELSE ProdFrom(a, k + 1, j, Mul(acc, At(a, k)))

prod(a, lo, hi) == ProdFrom(a, lo, hi, One)

\* ---------------------------------------------- max_prod_brute_force
\* the loops over i, j in the order of the source; st = [ok, max_prod, max]
RECURSIVE BruteForceScan(_, _, _, _)
BruteForceScan(a, lo, hi, st) ==
    IF lo >= Len(a) THEN st
    ELSE IF hi >= Len(a) THEN BruteForceScan(a, lo + 1, lo + 1, st)
    ELSE LET p == prod(a, lo, hi) IN
         IF ~p.ok THEN [st EXCEPT !.ok = FALSE]
         ELSE IF Gt(p.val, st.max_prod)
              THEN BruteForceScan(a, lo, hi + 1,
                                  [ok |-> TRUE, max_prod |-> p.val, max |-> <<lo, hi>>])
              ELSE BruteForceScan(a, lo, hi + 1, st)

\* [ok, max]: ok is FALSE when the call panics
max_prod_brute_force(a) ==
    LET st == BruteForceScan(a, 0, 0, [ok |-> TRUE, max_prod |-> Zero, max |-> <<0, 0>>])
    IN [ok |-> st.ok /\ st.max[1] <= st.max[2], max |-> st.max]

\* ------------------------------------- max_prod_brute_force_improved
\* st = [ok, max_prod, max]; acc is the running prefix product from lo
RECURSIVE ImprovedScan(_, _, _, _, _)
ImprovedScan(a, lo, hi, acc, st) ==
    IF lo >= Len(a) THEN st
    ELSE IF hi >= Len(a) THEN ImprovedScan(a, lo + 1, lo + 1, One, st)
    ELSE IF Overflows(acc, At(a, hi)) /\ overflow_checks THEN [st EXCEPT !.ok = FALSE]
    ELSE LET p == Mul(acc, At(a, hi)) IN
         IF Gt(p, st.max_prod)
         THEN ImprovedScan(a, lo, hi + 1, p,
                           [ok |-> TRUE, max_prod |-> p, max |-> <<lo, hi>>])
         ELSE ImprovedScan(a, lo, hi + 1, p, st)

max_prod_brute_force_improved(a) ==
    LET st == ImprovedScan(a, 0, 0, One, [ok |-> TRUE, max_prod |-> Zero, max |-> <<0, 0>>])
    IN [ok |-> st.ok /\ st.max[1] <= st.max[2], max |-> st.max]

\* --------------------------------------------------------------- Init
InitCommon ==
    /\ overflow_checks \in BOOLEAN
    /\ i = 0
    /\ current = <<0, 0>>
    /\ current_prod = Zero
    /\ max = <<0, 0>>
    /\ max_prod = Zero
    /\ start = 0
    /\ tmp_prod = One
    /\ tmp_max = Zero
    /\ tmp_max_idx = 0
    /\ smaller = FALSE
    /\ compressed = <<>>
    /\ current_max = <<Zero, 0, 0>>
    /\ result = <<0, 0>>

\* a call of max_prod_fast_int
InitInt ==
    /\ ty = "uint"
    /\ arr \in SeqsUpTo(UintValues, MaxLen)
    /\ pc = "fast_int"
    /\ InitCommon

\* ------------------------------------------------- max_prod_fast_int
\* a candidate test that also takes a tie (>= for >)
IntCandidateWinsOnTie(cp, mp) == ~Gt(mp, cp)

\* the candidate test of line 78
IntCandidateWins(cp, mp) == Gt(cp, mp)

\* lines 67-72: a non-zero element; [current, current_prod, overflow]
NonZeroBranch(cur, cp, k, x) ==
    LET fresh == EqT(cp, Zero)
        cp1 == IF fresh THEN One ELSE cp
        s == IF fresh THEN k ELSE cur[1]
    IN [current |-> <<s, k>>, current_prod |-> Mul(cp1, x), overflow |-> Overflows(cp1, x)]

\* a zero branch that ends the run at the zero without restarting it
ZeroBranchKeepsStart(cur, cp, k) ==
    [current |-> <<cur[1], k>>, current_prod |-> Zero, overflow |-> FALSE]

\* lines 74-75: a zero element
ZeroBranch(cur, cp, k) ==
    [current |-> <<k, k>>, current_prod |-> Zero, overflow |-> FALSE]

\* one iteration of the for loop, lines 65-82
IntIter ==
    /\ pc = "fast_int"
    /\ i < Len(arr)
    /\ LET x == At(arr, i)
           b == IF ~EqT(x, Zero) THEN NonZeroBranch(current, current_prod, i, x)
                ELSE ZeroBranch(current, current_prod, i)
       IN IF b.overflow /\ overflow_checks
          THEN /\ pc' = "panic"
               /\ UNCHANGED intVars
          ELSE /\ current' = b.current
               /\ current_prod' = b.current_prod
               /\ IF IntCandidateWins(b.current_prod, max_prod)
                  THEN max' = b.current /\ max_prod' = b.current_prod
                  ELSE UNCHANGED <<max, max_prod>>
               /\ i' = i + 1
               /\ pc' = "fast_int"
    /\ UNCHANGED <<ty, overflow_checks, arr, compressVars, compressed, current_max, result>>

\* lines 84-85: the assertion and the return
IntReturn ==
    /\ pc = "fast_int"
    /\ i = Len(arr)
    /\ IF max[1] <= max[2]
       THEN pc' = "done" /\ result' = max
       ELSE pc' = "panic" /\ UNCHANGED result
    /\ UNCHANGED <<ty, overflow_checks, arr, intVars, compressVars, compressed, current_max>>

NextInt == IntIter \/ IntReturn

SpecInt == InitInt /\ [][NextInt]_vars

\* ------------------------------------------------------ compress_dual
\* a call of max_prod_fast_real, which starts with compress_dual (line 145)
InitReal ==
    /\ ty = "real"
    /\ arr \in SeqsUpTo(RealValues, MaxLenReal)
    /\ pc = "skip"
    /\ InitCommon

\* k - 1 on usize: [ok, val]; ok is FALSE when the subtraction panics
UsizePred(k) ==
    IF k > 0 THEN [ok |-> TRUE, val |-> k - 1]
    ELSE IF overflow_checks THEN [ok |-> FALSE, val |-> 0]
    ELSE [ok |-> TRUE, val |-> USIZE_MAX]

\* the element at k continues the run being built (lines 115 and 124)
StaysInRun(sm, x) == IF sm THEN Lt(x, One) ELSE Gt(x, One)

\* the run closed at k (lines 118 and 127)
ClosedRun(tp, st, k) == <<tp, st, UsizePred(k).val>>

\* the trailing run is kept (line 135)
KeepsTrailing(tp) == Gt(tp, One)

\* an early return without the fallback run
AllBelowListEmpty(tm, idx) == <<>>

\* line 108: the list returned when no element reaches one
AllBelowList(tm, idx) == << <<tm, idx, idx>> >>

\* one iteration of the while loop, lines 98-105
CompressSkip ==
    /\ pc = "skip"
    /\ start < Len(arr)
    /\ Lt(At(arr, start), One)
    /\ IF Gt(At(arr, start), tmp_max)
       THEN tmp_max' = At(arr, start) /\ tmp_max_idx' = start
       ELSE UNCHANGED <<tmp_max, tmp_max_idx>>
    /\ start' = start + 1
    /\ UNCHANGED <<ty, overflow_checks, arr, pc, intVars, tmp_prod, smaller,
                   compressed, current_max, result>>

\* lines 107-109: the whole slice is below one
CompressAllBelow ==
    /\ pc = "skip"
    /\ start = Len(arr)
    /\ compressed' = AllBelowList(tmp_max, tmp_max_idx)
    /\ pc' = "seed"
    /\ UNCHANGED <<ty, overflow_checks, arr, intVars, compressVars, current_max, result>>

\* line 111 and the entry of the for loop at i = start
CompressBegin ==
    /\ pc = "skip"
    /\ start < Len(arr)
    /\ ~Lt(At(arr, start), One)
    /\ smaller' = Lt(At(arr, start), One)
    /\ i' = start
    /\ pc' = "classify"
    /\ UNCHANGED <<ty, overflow_checks, arr, current, current_prod, max, max_prod,
                   start, tmp_prod, tmp_max, tmp_max_idx, compressed, current_max, result>>

\* one iteration of the for loop, lines 113-133
CompressStep ==
    /\ pc = "classify"
    /\ i < Len(arr)
    /\ IF StaysInRun(smaller, At(arr, i))
       THEN /\ tmp_prod' = Mul(tmp_prod, At(arr, i))
            /\ i' = i + 1
            /\ UNCHANGED <<pc, compressed, smaller, start>>
       ELSE IF ~UsizePred(i).ok
            THEN /\ pc' = "panic"
                 /\ UNCHANGED <<i, compressed, smaller, start, tmp_prod>>
            ELSE /\ compressed' = Append(compressed, ClosedRun(tmp_prod, start, i))
                 /\ smaller' = ~smaller
                 /\ tmp_prod' = At(arr, i)
                 /\ start' = i
                 /\ i' = i + 1
                 /\ UNCHANGED pc
    /\ UNCHANGED <<ty, overflow_checks, arr, current, current_prod, max, max_prod,
                   tmp_max, tmp_max_idx, current_max, result>>

\* lines 135-141: the trailing run, the assertion and the return
CompressEnd ==
    /\ pc = "classify"
    /\ i = Len(arr)
    /\ LET out == IF KeepsTrailing(tmp_prod)
                  THEN Append(compressed, <<tmp_prod, start, Len(arr) - 1>>)
                  ELSE compressed
       IN /\ compressed' = out
          /\ pc' = IF out # <<>> THEN "seed" ELSE "panic"
    /\ UNCHANGED <<ty, overflow_checks, arr, intVars, compressVars, current_max, result>>

\* ------------------------------------------------ max_prod_fast_real
\* line 147: the candidate maximum starts as the first run
Seed ==
    /\ pc = "seed"
    /\ IF compressed # <<>>
       THEN current_max' = compressed[1] /\ pc' = "reduce"
       ELSE pc' = "panic" /\ UNCHANGED current_max
    /\ UNCHANGED <<ty, overflow_checks, arr, intVars, compressVars, compressed, result>>

\* line 157: the merge of the three runs
Combined(a, b, c) == <<Mul(Mul(a[1], b[1]), c[1]), c[2], a[3]>>

\* lines 160-164: the run that survives at the position of c
Survivor(comb, c) == IF Gt(comb[1], c[1]) THEN comb ELSE c

\* lines 166-177: the candidate maximum after the three tests
UpdateMax(cm, comb, a, c) ==
    LET m1 == IF Gt(comb[1], cm[1]) THEN comb ELSE cm
        m2 == IF Gt(a[1], m1[1]) THEN a ELSE m1
    IN IF Gt(c[1], m2[1]) THEN c ELSE m2

\* one iteration of the while loop, lines 149-178
ReduceStep ==
    /\ pc = "reduce"
    /\ Len(compressed) >= 3
    /\ LET n == Len(compressed)
           a == compressed[n]
           b == compressed[n - 1]
           c == compressed[n - 2]
           comb == Combined(a, b, c)
       IN /\ compressed' = Append(SubSeq(compressed, 1, n - 3), Survivor(comb, c))
          /\ current_max' = UpdateMax(current_max, comb, a, c)
    /\ UNCHANGED <<ty, overflow_checks, arr, pc, intVars, compressVars, result>>

\* line 182
RealReturn ==
    /\ pc = "reduce"
    /\ Len(compressed) < 3
    /\ result' = <<current_max[2], current_max[3]>>
    /\ pc' = "done"
    /\ UNCHANGED <<ty, overflow_checks, arr, intVars, compressVars, compressed, current_max>>

NextReal ==
    \/ CompressSkip
    \/ CompressAllBelow
    \/ CompressBegin
    \/ CompressStep
    \/ CompressEnd
    \/ Seed
    \/ ReduceStep
    \/ RealReturn

SpecReal == InitReal /\ [][NextReal]_vars

\* ------------------------------------------------- both entry points
Init == InitInt \/ InitReal

Next == NextInt \/ NextReal

Spec == Init /\ [][Next]_vars


\* ===================================================================
\* Properties
\* ===================================================================

\* the exact (unbounded) product of a[lo..=hi], lo <= hi < Len(a)
RECURSIVE ExactProd(_, _, _)
ExactProd(a, lo, hi) ==
    IF lo > hi THEN One
    ELSE LET r == ExactProd(a, lo + 1, hi)
         IN <<At(a, lo)[1] * r[1], At(a, lo)[2] * r[2]>>

\* the inclusive index ranges of a
Ranges(a) == {r \in (0..(Len(a) - 1)) \X (0..(Len(a) - 1)) : r[1] <= r[2]}

\* the ranges of maximal exact product
MaxRanges(a) ==
    {r \in Ranges(a) :
        \A q \in Ranges(a) : ~Gt(ExactProd(a, q[1], q[2]), ExactProd(a, r[1], r[2]))}

ZeroFree(a, lo, hi) == \A k \in lo..hi : ~EqT(At(a, k), Zero)

\* every product the three integer algorithms can form fits in T
NoOverflow(a) ==
    \A r \in Ranges(a) :
        ZeroFree(a, r[1], r[2]) => ExactProd(a, r[1], r[2])[1] < Modulus

Panicked == pc = "panic"
Returned == pc = "done"
NonEmpty == Len(arr) > 0

\* the returned range is what both oracles return
AgreesWithOracles ==
    /\ max_prod_brute_force(arr).ok
    /\ max_prod_brute_force(arr).max = result
    /\ max_prod_brute_force_improved(arr).ok
    /\ max_prod_brute_force_improved(arr).max = result

\* C1 as stated: for every non-empty sequence of unsigned integers,
\* max_prod_fast_int returns the pair that max_prod_brute_force and
\* max_prod_brute_force_improved return.
C1_FastIntEqualsOracles ==
    (ty = "uint" /\ NonEmpty /\ Returned) => AgreesWithOracles

\* C1 amended: for every non-empty sequence of unsigned integers in which the
\* product of every zero-free contiguous subrange fits in T, max_prod_fast_int
\* returns, and returns the pair both oracles return.
C1_FastIntEqualsOraclesNoOverflow ==
    (ty = "uint" /\ NonEmpty /\ NoOverflow(arr)) => /\ ~Panicked
                                                    /\ Returned => AgreesWithOracles

\* a returned scan over a zero, then a longer run, with the run the answer
C1_Witness ==
    /\ ty = "uint" /\ Returned /\ NoOverflow(arr)
    /\ Len(arr) = 4
    /\ EqT(At(arr, 1), Zero)
    /\ result = <<2, 3>>
    /\ AgreesWithOracles

\* C10: in max_prod_fast_int, after index i - 1 was processed: a zero element
\* leaves current = (i-1, i-1) and current_prod = 0; a non-zero element leaves
\* current ending at i-1, spanning no zero, with current_prod the product
\* (in T) of exactly the elements of current.
C10_CurrentRunInvariant ==
    (ty = "uint" /\ pc \in {"fast_int", "done"} /\ i > 0) =>
        IF EqT(At(arr, i - 1), Zero)
        THEN current = <<i - 1, i - 1>> /\ current_prod = Zero
        ELSE /\ current[2] = i - 1
             /\ 0 <= current[1] /\ current[1] <= current[2]
             /\ ZeroFree(arr, current[1], current[2])
             /\ prod(arr, current[1], current[2]).ok
             /\ prod(arr, current[1], current[2]).val = current_prod

\* a run of two elements that started after a zero
C10_Witness ==
    /\ ty = "uint" /\ pc = "fast_int" /\ i >= 3
    /\ EqT(At(arr, i - 3), Zero)
    /\ current = <<i - 2, i - 1>>
    /\ Gt(current_prod, One)

\* C2: for every non-empty sequence of non-negative reals, max_prod_fast_real
\* returns the pair max_prod_brute_force_improved returns.
C2_FastRealEqualsImproved ==
    (ty = "real" /\ NonEmpty) =>
        /\ ~Panicked
        /\ Returned => /\ max_prod_brute_force_improved(arr).ok
                       /\ max_prod_brute_force_improved(arr).max = result

\* C3: for every non-empty sequence of non-negative reals, the product over
\* the range max_prod_fast_real returns is the maximum product over all
\* contiguous subranges.
C3_FastRealProductIsMaximal ==
    (ty = "real" /\ NonEmpty) =>
        /\ ~Panicked
        /\ Returned => /\ prod(arr, result[1], result[2]).ok
                       /\ \A q \in Ranges(arr) :
                            ~Gt(ExactProd(arr, q[1], q[2]),
                                prod(arr, result[1], result[2]).val)

\* C4: when several subranges achieve the maximal product, the range
\* max_prod_fast_real returns is the one of them with the lowest start index.
C4_FastRealLowestStart ==
    (ty = "real" /\ NonEmpty /\ Returned /\ Cardinality(MaxRanges(arr)) > 1) =>
        /\ result \in MaxRanges(arr)
        /\ \A r \in MaxRanges(arr) : result[1] <= r[1]

\* C5: on a sequence of one element each of the four algorithms returns (0, 0).
C5_SingleElement ==
    Len(arr) = 1 =>
        /\ ~Panicked
        /\ Returned => result = <<0, 0>>
        /\ max_prod_brute_force_improved(arr) = [ok |-> TRUE, max |-> <<0, 0>>]
        /\ max_prod_brute_force(arr) = [ok |-> TRUE, max |-> <<0, 0>>]

\* C6 as stated: on the empty sequence max_prod_fast_int and
\* max_prod_fast_real panic and never return an index range.
C6_EmptyNeverReturns ==
    Len(arr) = 0 => ~Returned

\* C6 amended: on the empty sequence max_prod_fast_int and max_prod_fast_real
\* do not panic: each runs to its return and returns (0, 0).
C6_EmptyReturnsZeroZero ==
    Len(arr) = 0 => /\ ~Panicked
                    /\ Returned \/ ENABLED Next
                    /\ Returned => result = <<0, 0>>

\* max_prod_fast_real has returned on the empty slice
C6_Witness ==
    Len(arr) = 0 /\ ty = "real" /\ Returned /\ compressed = << <<Zero, 0, 0>> >>

\* C7: on a non-empty input of length n the returned pair satisfies
\* 0 <= start <= end <= n - 1, and the assertion of max_prod_fast_int holds
\* when it is reached.
C7_ReturnedRangeValid ==
    NonEmpty =>
        /\ Returned => /\ 0 <= result[1]
                       /\ result[1] <= result[2]
                       /\ result[2] <= Len(arr) - 1
        /\ (pc = "fast_int" /\ i = Len(arr)) => max[1] <= max[2]

\* C8: on a non-empty input, whenever the candidate maximum is read (after
\* each loop iteration and at return), its stored product is the product of
\* the input recomputed by prod over its stored span (no overflow).
C8_CandidateProductMatchesSpan ==
    /\ (ty = "uint" /\ NonEmpty /\ NoOverflow(arr) /\ pc \in {"fast_int", "done"} /\ i > 0) =>
          /\ prod(arr, max[1], max[2]).ok
          /\ EqT(prod(arr, max[1], max[2]).val, max_prod)
    /\ (ty = "real" /\ NonEmpty /\ pc \in {"reduce", "done"}) =>
          /\ prod(arr, current_max[2], current_max[3]).ok
          /\ EqT(prod(arr, current_max[2], current_max[3]).val, current_max[1])

\* C9: for a non-empty sequence of length n the list compress_dual returns is
\* non-empty, every run has start <= end <= n - 1, and each run after the
\* first starts one index after the previous run ends.
C9_CompressedRunsWellFormed ==
    (ty = "real" /\ NonEmpty /\ pc = "seed") =>
        /\ compressed # <<>>
        /\ \A k \in 1..Len(compressed) :
              /\ compressed[k][2] <= compressed[k][3]
              /\ compressed[k][3] <= Len(arr) - 1
        /\ \A k \in 2..Len(compressed) :
              compressed[k][2] - 1 = compressed[k - 1][3]

=============================================================================
